---- MODULE Spec2Model ----
(***************************************************************************)
(* Value resolution engine of composer-rust: the dependency graph          *)
(* (value_resolver/dependency_graph.rs), the reference extractor           *)
(* (value_resolver/extractor.rs), the resolution orchestrator              *)
(* (value_resolver/mod.rs) and the loading and merging of the sources      *)
(* (load_values.rs).                                                       *)
(*                                                                         *)
(* Strings are sequences of tokens, so that building a path               *)
(* (format!("{}.{}"), format!("{}[{}]")) and taking it apart again         *)
(* (path.split('.')) are different operations.  A serde_yaml Value is a    *)
(* record [k |-> kind, v |-> payload]; a Mapping payload is a function     *)
(* from string keys to Values (key order is not modelled: every place the  *)
(* code iterates a map whose order matters is a nondeterministic choice).  *)
(***************************************************************************)
EXTENDS Integers, Sequences, FiniteSets, TLC

VARIABLES
    pc,          \* position in resolve_with / topological_sort
    values,      \* resolve_with: the tree being resolved (mut values)
    input,       \* history: the tree resolve_with was called with
    templates,   \* resolve_with: HashMap path -> template string
    pending,     \* build_dependency_graph: template paths not yet iterated
    graph,       \* DependencyGraph {graph, node_indices}
    order,       \* resolution_order returned by topological_sort
    idx,         \* position of the for loop over resolution_order
    result,      \* what the call returned
    visited,     \* dfs_find_cycle: HashMap<NodeIndex, bool>
    path,        \* dfs_find_cycle: Vec<String> recursion stack of names
    dfsStack,    \* dfs_find_cycle: call frames
    dfsCall,     \* dfs_find_cycle: node of the call being entered, 0 if none
    cycleNode,   \* cycle.node_id() reported by toposort
    entered,     \* history: how often dfs_find_cycle entered each node
    rendered,    \* history: path -> string the renderer returned
    renderLog,   \* history: paths in the order the renderer was called
    ctxLog,      \* history: the context tree of each call of the renderer
    graphBuilt,  \* history: build_dependency_graph was called
    deps,        \* history: the (from, to) pairs given to add_dependency
    steps,       \* history: number of steps resolve_with has taken
    yaml_files,  \* load_yaml_files: the sources, each with what reading it gives
    fileIdx,     \* load_yaml_files: position of the loop over yaml_files
    yaml_values, \* load_yaml_files: the accumulator Mapping
    prev_values, \* history: the accumulator before the last merge
    loadErr,     \* the message of the error the loading loop returned
    resolveCalls,\* history: calls of resolve_value_references
    mentioned    \* history: the paths given to add_node and add_dependency

vars == <<pc, values, input, templates, pending, graph, order, idx, result,
          visited, path, dfsStack, dfsCall, cycleNode, entered, rendered,
          renderLog, ctxLog, graphBuilt, deps, steps, yaml_files, fileIdx,
          yaml_values, prev_values, loadErr, resolveCalls, mentioned>>

----------------------------------------------------------------------------
(* Bounds *)

MaxSeqLen == 1      \* longest sequence in an input tree
MaxEdges == 4       \* add_dependency calls in GraphSpec

----------------------------------------------------------------------------
(* Sequence helpers *)

Last(s) == s[Len(s)]

Front(s) == SubSeq(s, 1, Len(s) - 1)

Reverse(s) == [i \in 1..Len(s) |-> s[Len(s) + 1 - i]]

Range(s) == {s[i] : i \in 1..Len(s)}

RECURSIVE Flatten(_)
Flatten(ss) == IF ss = <<>> THEN <<>> ELSE Head(ss) \o Flatten(Tail(ss))

RECURSIVE SetToSeq(_)
SetToSeq(S) == IF S = {} THEN <<>>
               ELSE LET x == CHOOSE y \in S : TRUE IN <<x>> \o SetToSeq(S \ {x})

----------------------------------------------------------------------------
(* serde_yaml::Value *)

Str(s) == [k |-> "String", v |-> s]

Num(n) == [k |-> "Number", v |-> n]

Null == [k |-> "Null", v |-> 0]

Map(m) == [k |-> "Mapping", v |-> m]

SeqV(e) == [k |-> "Sequence", v |-> e]

\* Mapping::insert: replaces the value of an existing key, adds a new one
MapInsert(m, key, val) ==
    [x \in (DOMAIN m) \cup {key} |-> IF x = key THEN val ELSE m[x]]

----------------------------------------------------------------------------
(* Reference extractor (extractor.rs) *)

\* identifiers [a-zA-Z_][a-zA-Z0-9_]* that occur in the modelled strings
Idents == {"a", "b", "c", "x", "y", "default", "fallback"}

\* HAS_TEMPLATE_REGEX \{\{.*?\}\} : an opener followed by a closer
contains_template(s) ==
    \E i \in 1..Len(s) : \E j \in 1..Len(s) :
        i < j /\ s[i] = "{{" /\ s[j] = "}}"

\* end of the longest identifier chain ident(.ident)* starting at i, 0 if none
RECURSIVE ChainEnd(_, _)
ChainEnd(s, i) ==
    IF i > Len(s) \/ s[i] \notin Idents THEN 0
    ELSE IF i + 2 <= Len(s) /\ s[i + 1] = "." /\ s[i + 2] \in Idents
         THEN ChainEnd(s, i + 2)
         ELSE i

\* index of the first "}}" at or after i, 0 if none
FirstCloser(s, i) ==
    IF \E j \in i..Len(s) : s[j] = "}}"
    THEN CHOOSE j \in i..Len(s) : s[j] = "}}" /\ \A h \in i..(j - 1) : s[h] # "}}"
    ELSE 0

\* TEMPLATE_REGEX matched at position i: [end |-> index of the closer or 0,
\* ref |-> capture group 1]
MatchAt(s, i) ==
    IF s[i] # "{{" THEN [end |-> 0, ref |-> <<>>]
    ELSE LET e == ChainEnd(s, i + 1) IN
         IF e = 0 THEN [end |-> 0, ref |-> <<>>]
         ELSE IF e + 1 <= Len(s) /\ s[e + 1] = "}}"
              THEN [end |-> e + 1, ref |-> SubSeq(s, i + 1, e)]
         ELSE IF e + 1 <= Len(s) /\ s[e + 1] = "|" /\ FirstCloser(s, e + 2) # 0
              THEN [end |-> FirstCloser(s, e + 2), ref |-> SubSeq(s, i + 1, e)]
         ELSE [end |-> 0, ref |-> <<>>]

\* captures_iter: leftmost non-overlapping matches, in order
RECURSIVE ExtractFrom(_, _)
ExtractFrom(s, i) ==
    IF i > Len(s) THEN <<>>
    ELSE LET m == MatchAt(s, i) IN
         IF m.end = 0 THEN ExtractFrom(s, i + 1)
         ELSE <<m.ref>> \o ExtractFrom(s, m.end + 1)

extract_references(s) == ExtractFrom(s, 1)

----------------------------------------------------------------------------
(* Paths *)

\* the text of a sequence index inside format!("{}[{}]", current_path, idx)
IdxTok(i) == <<"[0]", "[1]", "[2]", "[3]">>[i + 1]

\* path.split('.')
RECURSIVE Split(_)
Split(s) ==
    IF \E i \in 1..Len(s) : s[i] = "."
    THEN LET i == CHOOSE j \in 1..Len(s) :
                      s[j] = "." /\ \A h \in 1..(j - 1) : s[h] # "."
         IN <<SubSeq(s, 1, i - 1)>> \o Split(SubSeq(s, i + 1, Len(s)))
    ELSE <<s>>

\* positions of a tree: sequences of steps, a step being a key or an index
KeyStep(key) == [t |-> "key", key |-> key, i |-> 0]

IdxStep(i) == [t |-> "idx", key |-> <<>>, i |-> i]

RECURSIVE Positions(_)
Positions(v) ==
    {<<>>} \cup
    (IF v.k = "Mapping"
     THEN UNION {{<<KeyStep(key)>> \o p : p \in Positions(v.v[key])} :
                 key \in DOMAIN v.v}
     ELSE IF v.k = "Sequence"
     THEN UNION {{<<IdxStep(i)>> \o p : p \in Positions(v.v[i])} :
                 i \in DOMAIN v.v}
     ELSE {})

RECURSIVE At(_, _)
At(v, pos) ==
    IF pos = <<>> THEN v
    ELSE IF Head(pos).t = "key" THEN At(v.v[Head(pos).key], Tail(pos))
    ELSE At(v.v[Head(pos).i], Tail(pos))

\* the path string collect_template_values builds for a position
RECURSIVE PathStr(_, _)
PathStr(cur, pos) ==
    IF pos = <<>> THEN cur
    ELSE IF Head(pos).t = "key"
         THEN PathStr(IF cur = <<>> THEN Head(pos).key
                      ELSE cur \o <<".">> \o Head(pos).key, Tail(pos))
         ELSE PathStr(cur \o <<IdxTok(Head(pos).i - 1)>>, Tail(pos))

----------------------------------------------------------------------------
(* Template renderer (MiniJinjaRenderer::render) *)

NumTok(n) == <<"0", "1", "2", "3">>[n + 1]

\* the text a value is printed as inside a rendered string
RECURSIVE ToText(_)
ToText(v) ==
    IF v.k = "String" THEN v.v
    ELSE IF v.k = "Number" THEN <<NumTok(v.v)>>
    ELSE IF v.k = "Null" THEN <<"none">>
    ELSE IF v.k = "Sequence"
    THEN <<"[">> \o Flatten([i \in DOMAIN v.v |-> ToText(v.v[i])]) \o <<"]">>
    ELSE LET ks == SetToSeq(DOMAIN v.v) IN
         <<"{">> \o Flatten([i \in DOMAIN ks |->
                                ks[i] \o <<":">> \o ToText(v.v[ks[i]])])
         \o <<"}">>

\* attribute lookup of a dotted reference in the context:
\* [st |-> "val" | "undef" | "err", v |-> the value]
RECURSIVE LookupParts(_, _, _)
LookupParts(cur, parts, i) ==
    IF i > Len(parts) THEN cur
    ELSE IF cur.st = "undef" THEN [st |-> "err", v |-> Null]
    ELSE IF cur.v.k = "Mapping" /\ parts[i] \in DOMAIN cur.v.v
         THEN LookupParts([st |-> "val", v |-> cur.v.v[parts[i]]], parts, i + 1)
         ELSE LookupParts([st |-> "undef", v |-> Null], parts, i + 1)

Lookup(ctx, ref) == LookupParts([st |-> "val", v |-> ctx], Split(ref), 1)

\* one {{ ... }} expression: an integer literal, or a reference, optionally
\* piped through default
EvalExpr(expr, ctx) ==
    LET ce == ChainEnd(expr, 1) IN
    IF expr = <<"1">> THEN [ok |-> TRUE, s |-> <<"1">>]
    ELSE IF ce = 0 THEN [ok |-> FALSE, s |-> <<>>]
    ELSE LET r == Lookup(ctx, SubSeq(expr, 1, ce))
             flt == SubSeq(expr, ce + 1, Len(expr)) IN
         IF r.st = "err" THEN [ok |-> FALSE, s |-> <<>>]
         ELSE IF flt = <<>>
              THEN [ok |-> TRUE,
                    s |-> IF r.st = "undef" THEN <<>> ELSE ToText(r.v)]
         ELSE IF flt = <<"|", "default">>
              THEN [ok |-> TRUE,
                    s |-> IF r.st = "undef" THEN <<"fallback">>
                          ELSE ToText(r.v)]
         ELSE [ok |-> FALSE, s |-> <<>>]

RECURSIVE RenderFrom(_, _, _)
RenderFrom(s, i, ctx) ==
    IF i > Len(s) THEN [ok |-> TRUE, s |-> <<>>]
    ELSE IF s[i] = "{{"
    THEN LET c == FirstCloser(s, i + 1) IN
         IF c = 0 THEN [ok |-> FALSE, s |-> <<>>]
         ELSE LET e == EvalExpr(SubSeq(s, i + 1, c - 1), ctx) IN
              IF ~e.ok THEN e
              ELSE LET rest == RenderFrom(s, c + 1, ctx) IN
                   IF ~rest.ok THEN rest
                   ELSE [ok |-> TRUE, s |-> e.s \o rest.s]
    ELSE LET rest == RenderFrom(s, i + 1, ctx) IN
         IF ~rest.ok THEN rest
         ELSE [ok |-> TRUE, s |-> <<s[i]>> \o rest.s]

render(template_str, context) == RenderFrom(template_str, 1, context)

----------------------------------------------------------------------------
(* Orchestrator helpers (value_resolver/mod.rs) *)

\* collect_template_values: the (path, template) pairs inserted into the map
RECURSIVE collect_template_values(_, _)
collect_template_values(value, current_path) ==
    IF value.k = "String"
    THEN IF contains_template(value.v) THEN {<<current_path, value.v>>} ELSE {}
    ELSE IF value.k = "Mapping"
    THEN UNION {collect_template_values(value.v[key],
                    IF current_path = <<>> THEN key
                    ELSE current_path \o <<".">> \o key) :
                key \in DOMAIN value.v}
    ELSE IF value.k = "Sequence"
    THEN UNION {collect_template_values(value.v[i],
                    current_path \o <<IdxTok(i - 1)>>) :
                i \in DOMAIN value.v}
    ELSE {}

\* the HashMaps the inserts can leave: two positions with the same path
\* string overwrite each other, the later one in map order wins
TemplateMaps(rel) ==
    {f \in [{r[1] : r \in rel} -> {r[2] : r \in rel}] :
        \A p \in DOMAIN f : <<p, f[p]>> \in rel}

\* variant: a missing intermediate segment is created as an empty mapping
RECURSIVE SetAt_AutoCreate(_, _, _, _)
SetAt_AutoCreate(current, parts, i, new_val) ==
    IF i = Len(parts)
    THEN IF current.k = "Mapping"
         THEN [ok |-> TRUE, v |-> Map(MapInsert(current.v, parts[i], new_val))]
         ELSE [ok |-> FALSE, v |-> current]
    ELSE IF current.k = "Mapping"
         THEN LET child == IF parts[i] \in DOMAIN current.v
                           THEN current.v[parts[i]] ELSE Map(<<>>)
                  r == SetAt_AutoCreate(child, parts, i + 1, new_val) IN
              IF r.ok
              THEN [ok |-> TRUE,
                    v |-> Map(MapInsert(current.v, parts[i], r.v))]
              ELSE [ok |-> FALSE, v |-> current]
         ELSE [ok |-> FALSE, v |-> current]

\* the loop of set_value_at_path over parts[i..]
RECURSIVE SetAt(_, _, _, _)
SetAt(current, parts, i, new_val) ==
    IF i = Len(parts)
    THEN IF current.k = "Mapping"
         THEN [ok |-> TRUE, v |-> Map(MapInsert(current.v, parts[i], new_val))]
         ELSE [ok |-> FALSE, v |-> current]
    ELSE IF current.k = "Mapping"
         THEN IF parts[i] \in DOMAIN current.v
              THEN LET r == SetAt(current.v[parts[i]], parts, i + 1, new_val) IN
                   IF r.ok
                   THEN [ok |-> TRUE,
                         v |-> Map([current.v EXCEPT ![parts[i]] = r.v])]
                   ELSE [ok |-> FALSE, v |-> current]
              ELSE [ok |-> FALSE, v |-> current]
         ELSE [ok |-> FALSE, v |-> current]

set_value_at_path(value, p, new_val) ==
    LET parts == Split(p) IN
    IF Len(parts) = 1
    THEN IF value.k = "Mapping"
         THEN [ok |-> TRUE, v |-> Map(MapInsert(value.v, parts[1], new_val))]
         ELSE [ok |-> FALSE, v |-> value]
    ELSE SetAt(value, parts, 1, new_val)

----------------------------------------------------------------------------
(* DependencyGraph (dependency_graph.rs) *)

NewGraph == [nodes |-> <<>>, edges |-> <<>>, node_indices |-> <<>>]

\* variant: a node added without the lookup in node_indices
get_or_create_node_NoLookup(g, p) ==
    LET n == Len(g.nodes) + 1 IN
    [g |-> [g EXCEPT !.nodes = Append(@, p),
                     !.node_indices = MapInsert(@, p, n)],
     idx |-> n]

get_or_create_node(g, p) ==
    IF p \in DOMAIN g.node_indices
    THEN [g |-> g, idx |-> g.node_indices[p]]
    ELSE LET n == Len(g.nodes) + 1 IN
         [g |-> [g EXCEPT !.nodes = Append(@, p),
                          !.node_indices = MapInsert(@, p, n)],
          idx |-> n]

\* variant: add_node pushes a node without the lookup
add_node_NoLookup(g, p) == get_or_create_node_NoLookup(g, p).g

add_node(g, p) == get_or_create_node(g, p).g

\* variant: the edge added from -> to
add_dependency_Reversed(g, from, to) ==
    LET a == get_or_create_node(g, from)
        b == get_or_create_node(a.g, to)
    IN [b.g EXCEPT !.edges = Append(@, <<a.idx, b.idx>>)]

\* edge direction: to -> from
add_dependency(g, from, to) ==
    LET a == get_or_create_node(g, from)
        b == get_or_create_node(a.g, to)
    IN [b.g EXCEPT !.edges = Append(@, <<b.idx, a.idx>>)]

\* variant: the consuming path is not registered on its own
BuildOne_NoAddNode(g, p, template_str) ==
    LET refs == extract_references(template_str)
        AddRefs[i \in 0..Len(refs)] ==
            IF i = 0 THEN g
            ELSE add_dependency(AddRefs[i - 1], p, refs[i])
    IN AddRefs[Len(refs)]

\* build_dependency_graph, one iteration of the loop over templates
BuildOne(g, p, template_str) ==
    LET refs == extract_references(template_str)
        AddRefs[i \in 0..Len(refs)] ==
            IF i = 0 THEN add_node(g, p)
            ELSE add_dependency(AddRefs[i - 1], p, refs[i])
    IN AddRefs[Len(refs)]

\* graph.edges(node) / neighbors: outgoing edges, most recently added first
Neighbors(g, n) ==
    LET out == SelectSeq(g.edges, LAMBDA e : e[1] = n) IN
    Reverse([i \in DOMAIN out |-> out[i][2]])

\* neighbors of the reversed graph: sources of incoming edges, newest first
NeighborsRev(g, n) ==
    LET inc == SelectSeq(g.edges, LAMBDA e : e[2] = n) IN
    Reverse([i \in DOMAIN inc |-> inc[i][1]])

----------------------------------------------------------------------------
(* petgraph::algo::toposort as called by topological_sort *)

\* variant: the first pass without the test for a self loop
RECURSIVE TopoWhile_NoSelfLoop(_, _)
TopoWhile_NoSelfLoop(g, st) ==
    IF st.stack = <<>> \/ st.err # 0 THEN st
    ELSE LET nx == Last(st.stack) IN
         IF nx \notin st.disc
         THEN LET d == st.disc \cup {nx}
                  nb == Neighbors(g, nx) IN
              TopoWhile_NoSelfLoop(g, [st EXCEPT
                  !.disc = d,
                  !.stack = @ \o SelectSeq(nb, LAMBDA s : s \notin d)])
         ELSE TopoWhile_NoSelfLoop(g, [st EXCEPT
                  !.stack = Front(@),
                  !.fin = @ \cup {nx},
                  !.fs = IF nx \in st.fin THEN @ ELSE Append(@, nx)])

\* the inner while loop of the first pass: an iterative depth-first search
\* that records the nodes in finishing order; err is the node of a self loop
RECURSIVE TopoWhile(_, _)
TopoWhile(g, st) ==
    IF st.stack = <<>> \/ st.err # 0 THEN st
    ELSE LET nx == Last(st.stack) IN
         IF nx \notin st.disc
         THEN LET d == st.disc \cup {nx}
                  nb == Neighbors(g, nx) IN
              IF nx \in Range(nb)
              THEN [st EXCEPT !.err = nx]
              ELSE TopoWhile(g, [st EXCEPT
                       !.disc = d,
                       !.stack = @ \o SelectSeq(nb, LAMBDA s : s \notin d)])
         ELSE TopoWhile(g, [st EXCEPT
                  !.stack = Front(@),
                  !.fin = @ \cup {nx},
                  !.fs = IF nx \in st.fin THEN @ ELSE Append(@, nx)])

\* for i in g.node_identifiers().rev()
RECURSIVE TopoFor(_, _, _)
TopoFor(g, st, i) ==
    IF i = 0 \/ st.err # 0 THEN st
    ELSE TopoFor(g,
                 IF i \in st.disc THEN st
                 ELSE TopoWhile(g, [st EXCEPT !.stack = <<i>>]),
                 i - 1)

\* variant: the second pass left out
TopoCheck_Skipped(g, fs, k, disc) == 0

\* second pass: walking the reversed finishing order, a node that still has
\* an undiscovered predecessor closes a cycle; that predecessor is reported
RECURSIVE TopoCheck(_, _, _, _)
TopoCheck(g, fs, k, disc) ==
    IF k > Len(fs) THEN 0
    ELSE LET d == disc \cup {fs[k]}
             pushed == SelectSeq(NeighborsRev(g, fs[k]), LAMBDA s : s \notin d)
         IN IF pushed # <<>> THEN Last(pushed)
            ELSE TopoCheck(g, fs, k + 1, d)

\* [ok |-> TRUE, sorted |-> node indices] or [ok |-> FALSE, node |-> cycle.node_id()]
toposort(g) ==
    LET st == TopoFor(g, [disc |-> {}, fin |-> {}, stack |-> <<>>,
                          fs |-> <<>>, err |-> 0], Len(g.nodes)) IN
    IF st.err # 0 THEN [ok |-> FALSE, sorted |-> <<>>, node |-> st.err]
    ELSE LET fs == Reverse(st.fs)
             c == TopoCheck(g, fs, 1, {}) IN
         IF c # 0 THEN [ok |-> FALSE, sorted |-> <<>>, node |-> c]
         ELSE [ok |-> TRUE, sorted |-> fs, node |-> 0]

----------------------------------------------------------------------------
(* Input trees *)

K(name) == <<name>>

\* "{{ ref }}" followed by literal text
Tmpl(ref) == <<"{{">> \o ref \o <<"}}", "-s">>

Plain == Str(<<"x">>)

\* elements of sequences
SeqElems == {Str(Tmpl(K("c"))), Plain, Map([key \in {K("a")} |-> Str(Tmpl(K("c")))])}

RECURSIVE SeqsUpTo(_)
SeqsUpTo(n) ==
    IF n = 0 THEN {<<>>}
    ELSE SeqsUpTo(n - 1) \cup
         {Append(s, e) : s \in {t \in SeqsUpTo(n - 1) : Len(t) = n - 1},
                         e \in SeqElems}

Absent == [k |-> "Absent", v |-> 0]

ValsA == {Absent, Plain, Num(1),
          Str(Tmpl(K("b"))), Str(Tmpl(K("c"))), Str(Tmpl(K("a"))),
          Str(Tmpl(<<"b", ".", "a">>)),
          Str(Tmpl(<<"b", ".", "a", ".", "a">>)),
          Str(<<"{{", "b", "}}", "{{", "c", "}}">>),
          Str(<<"{{", "c", "}}", "{{", "c", "}}">>),
          Str(<<"{{", "}}">>)}

ValsB == {Absent, Plain, Str(Tmpl(K("c"))), Str(Tmpl(K("a")))}
         \cup {Map([key \in {K("a")} |-> e]) :
                  e \in {Str(<<"y">>), Num(2), Str(Tmpl(K("c"))), Str(Tmpl(K("a")))}}
         \cup {Map([key \in {K("a")} |->
                       Map([key2 \in {K("a")} |-> Str(Tmpl(K("c")))])])}
         \cup {SeqV(s) : s \in SeqsUpTo(MaxSeqLen)}

ValsC == {Absent, Plain, Num(3), Str(Tmpl(K("a"))), Str(Tmpl(K("b"))),
          Str(<<"{{", "y", "|", "default", "}}">>),
          Str(<<"{{", "1", "}}">>)}

\* a top-level key whose text contains a dot
ValsBA == {Absent, Str(Tmpl(K("c"))), Null}

RootKeys == {K("a"), K("b"), K("c"), <<"b", ".", "a">>}

MkRoot(a, b, c, d) ==
    LET f == [key \in RootKeys |->
                 IF key = K("a") THEN a
                 ELSE IF key = K("b") THEN b
                 ELSE IF key = K("c") THEN c
                 ELSE d]
    IN Map([key \in {x \in RootKeys : f[x].k # "Absent"} |-> f[key]])

Inputs ==
    {MkRoot(a, b, c, d) : a \in ValsA, b \in ValsB, c \in ValsC, d \in ValsBA}
    \cup {Str(Tmpl(K("a"))), Plain, SeqV(<<Str(Tmpl(K("a")))>>)}

\* paths handed to the graph API in GraphSpec
GraphPaths == {K("a"), K("b"), K("c")}

----------------------------------------------------------------------------
(* State machine *)

NoResult == [kind |-> "none", chain |-> <<>>]

Fresh ==
    /\ templates = <<>>
    /\ pending = {}
    /\ graph = NewGraph
    /\ order = <<>>
    /\ idx = 0
    /\ result = NoResult
    /\ visited = <<>>
    /\ path = <<>>
    /\ dfsStack = <<>>
    /\ dfsCall = 0
    /\ cycleNode = 0
    /\ entered = <<>>
    /\ rendered = <<>>
    /\ renderLog = <<>>
    /\ ctxLog = <<>>
    /\ graphBuilt = FALSE
    /\ deps = {}
    /\ steps = 0
    /\ mentioned = {}

loadVars == <<yaml_files, fileIdx, yaml_values, prev_values, loadErr,
              resolveCalls>>

\* load_yaml_files is not running
NoLoad ==
    /\ yaml_files = <<>>
    /\ fileIdx = 0
    /\ yaml_values = <<>>
    /\ prev_values = <<>>
    /\ loadErr = <<>>
    /\ resolveCalls = 0

\* resolve_with(values, extractor, renderer) is called
Init ==
    /\ pc = "start"
    /\ values \in Inputs
    /\ input = values
    /\ Fresh
    /\ NoLoad

dfsVars == <<visited, path, dfsStack, dfsCall, cycleNode, entered>>

\* variant: the early return never taken
IsEmpty_Never(t) == FALSE

\* templates.is_empty()
IsEmpty(t) == DOMAIN t = {}

\* resolve_with step 1, the early return when no template is found, and
\* otherwise the call of build_dependency_graph up to its loop (a loop over
\* no entries falls through to the sort)
CollectTemplates ==
    /\ pc = "start"
    /\ \E t \in TemplateMaps(collect_template_values(values, <<>>)) :
          /\ templates' = t
          /\ pending' = DOMAIN t
          /\ IF IsEmpty(t)
             THEN /\ pc' = "done"
                  /\ result' = [kind |-> "ok", chain |-> <<>>]
                  /\ UNCHANGED graphBuilt
             ELSE /\ pc' = IF DOMAIN t = {} THEN "sort" ELSE "build"
                  /\ graphBuilt' = TRUE
                  /\ UNCHANGED result
    /\ UNCHANGED <<values, input, graph, order, idx, dfsVars, rendered,
                   renderLog, ctxLog, deps>>
    /\ steps' = steps + 1
    /\ UNCHANGED <<loadVars, mentioned>>

\* build_dependency_graph: one iteration of `for (path, template_str) in
\* templates`; the HashMap yields its entries in an arbitrary order
BuildStep ==
    /\ pc = "build"
    /\ \E p \in pending :
          /\ graph' = BuildOne(graph, p, templates[p])
          /\ pending' = pending \ {p}
          /\ pc' = IF pending' = {} THEN "sort" ELSE "build"
          /\ deps' = deps \cup {<<p, r>> : r \in Range(extract_references(templates[p]))}
          /\ mentioned' = mentioned \cup {p}
                              \cup Range(extract_references(templates[p]))
    /\ UNCHANGED <<values, input, templates, order, idx, result, dfsVars,
                   rendered, renderLog, ctxLog, graphBuilt>>
    /\ steps' = steps + 1
    /\ UNCHANGED loadVars

\* topological_sort up to the call of find_cycle_path
TopoSortStep(okpc) ==
    LET r == toposort(graph) IN
    /\ IF r.ok
       THEN /\ order' = [i \in DOMAIN r.sorted |-> graph.nodes[r.sorted[i]]]
            /\ idx' = 1
            /\ pc' = okpc
            /\ UNCHANGED dfsVars
       ELSE /\ cycleNode' = r.node
            /\ dfsCall' = r.node
            /\ visited' = <<>>
            /\ path' = <<>>
            /\ dfsStack' = <<>>
            /\ entered' = [n \in 1..Len(graph.nodes) |-> 0]
            /\ pc' = "dfs"
            /\ UNCHANGED <<order, idx>>
    /\ UNCHANGED <<values, input, templates, pending, graph, result, rendered,
                   renderLog, ctxLog, graphBuilt, deps>>
    /\ steps' = steps + 1
    /\ UNCHANGED <<loadVars, mentioned>>

\* resolve_with step 3
Sort == pc = "sort" /\ TopoSortStep("render")

\* variant: only nodes on the recursion stack count as seen
Seen_OnStackOnly(vis, node) == node \in DOMAIN vis /\ vis[node]

\* dfs_find_cycle was called before with this node (on the stack or finished)
Seen(vis, node) == node \in DOMAIN vis

\* variant: the name is never found in the recursion stack
Position_Never(pth, name) == 0

\* position of the first occurrence of a name in the recursion stack, 0 if none
Position(pth, name) ==
    IF \E i \in 1..Len(pth) : pth[i] = name
    THEN CHOOSE i \in 1..Len(pth) :
             pth[i] = name /\ \A h \in 1..(i - 1) : pth[h] # name
    ELSE 0

\* variant: the chain without the closing name
CycleChain_Open(pth, pos, name) == SubSeq(pth, pos, Len(pth))

\* the chain dfs_find_cycle formats: path[pos..] followed by the node's name
CycleChain(pth, pos, name) == SubSeq(pth, pos, Len(pth)) \o <<name>>

\* dfs_find_cycle: entry of a call, up to the loop over the edges
DfsEnter ==
    /\ pc = "dfs"
    /\ dfsCall # 0
    /\ LET node == dfsCall
           name == graph.nodes[node] IN
       IF Seen(visited, node)
       THEN /\ IF visited[node] /\ Position(path, name) # 0
               THEN /\ result' = [kind |-> "circular",
                                  chain |-> CycleChain(path, Position(path, name), name)]
                    /\ pc' = "error"
               ELSE UNCHANGED <<result, pc>>
            /\ dfsCall' = 0
            /\ UNCHANGED <<visited, path, dfsStack, entered>>
       ELSE /\ visited' = MapInsert(visited, node, TRUE)
            /\ path' = Append(path, name)
            /\ dfsStack' = Append(dfsStack,
                                  [node |-> node, rest |-> Neighbors(graph, node)])
            /\ entered' = [entered EXCEPT ![node] = @ + 1]
            /\ dfsCall' = 0
            /\ UNCHANGED <<result, pc>>
    /\ UNCHANGED <<values, input, templates, pending, graph, order, idx,
                   cycleNode, rendered, renderLog, ctxLog, graphBuilt, deps>>
    /\ steps' = steps + 1
    /\ UNCHANGED <<loadVars, mentioned>>

\* dfs_find_cycle: the loop over graph.edges(node) of the innermost call, and
\* its return; when the outermost call returns None, topological_sort falls
\* back to the name of the flagged node
DfsLoop ==
    /\ pc = "dfs"
    /\ dfsCall = 0
    /\ dfsStack # <<>>
    /\ LET fr == Last(dfsStack) IN
       IF fr.rest # <<>>
       THEN /\ dfsCall' = Head(fr.rest)
            /\ dfsStack' = [dfsStack EXCEPT ![Len(dfsStack)].rest = Tail(@)]
            /\ UNCHANGED <<visited, path, result, pc>>
       ELSE /\ path' = Front(path)
            /\ visited' = [visited EXCEPT ![fr.node] = FALSE]
            /\ dfsStack' = Front(dfsStack)
            /\ dfsCall' = 0
            /\ IF Len(dfsStack) = 1
               THEN /\ result' = [kind |-> "circular",
                                  chain |-> <<graph.nodes[cycleNode]>>]
                    /\ pc' = "error"
               ELSE UNCHANGED <<result, pc>>
    /\ UNCHANGED <<values, input, templates, pending, graph, order, idx,
                   cycleNode, entered, rendered, renderLog, ctxLog, graphBuilt, deps>>
    /\ steps' = steps + 1
    /\ UNCHANGED <<loadVars, mentioned>>

\* variant: a path without a template is given the empty template
TemplateGet_Blank(tm, p) ==
    [some |-> TRUE, t |-> IF p \in DOMAIN tm THEN tm[p] ELSE <<>>]

\* templates.get(path)
TemplateGet(tm, p) ==
    IF p \in DOMAIN tm THEN [some |-> TRUE, t |-> tm[p]]
    ELSE [some |-> FALSE, t |-> <<>>]

\* resolve_with step 4: one iteration of `for path in resolution_order`
RenderStep ==
    /\ pc = "render"
    /\ idx <= Len(order)
    /\ LET p == order[idx] IN
       IF TemplateGet(templates, p).some
       THEN LET r == render(TemplateGet(templates, p).t, values) IN
            /\ renderLog' = Append(renderLog, p)
            /\ ctxLog' = Append(ctxLog, values)
            /\ IF ~r.ok
               THEN /\ pc' = "error"
                    /\ result' = [kind |-> "render_error", chain |-> <<>>]
                    /\ UNCHANGED <<values, idx, rendered>>
               ELSE LET w == set_value_at_path(values, p, Str(r.s)) IN
                    /\ rendered' = MapInsert(rendered, p, r.s)
                    /\ IF w.ok
                       THEN /\ values' = w.v
                            /\ idx' = idx + 1
                            /\ UNCHANGED <<pc, result>>
                       ELSE /\ pc' = "error"
                            /\ result' = [kind |-> "path_error", chain |-> <<>>]
                            /\ UNCHANGED <<values, idx>>
       ELSE /\ idx' = idx + 1
            /\ UNCHANGED <<values, pc, result, rendered, renderLog, ctxLog>>
    /\ UNCHANGED <<input, templates, pending, graph, order, dfsVars, graphBuilt, deps>>
    /\ steps' = steps + 1
    /\ UNCHANGED <<loadVars, mentioned>>

\* resolve_with: Ok(values)
Return ==
    /\ pc = "render"
    /\ idx > Len(order)
    /\ pc' = "done"
    /\ result' = [kind |-> "ok", chain |-> <<>>]
    /\ UNCHANGED <<values, input, templates, pending, graph, order, idx,
                   dfsVars, rendered, renderLog, ctxLog, graphBuilt, deps>>
    /\ steps' = steps + 1
    /\ UNCHANGED <<loadVars, mentioned>>

Next ==
    \/ CollectTemplates
    \/ BuildStep
    \/ Sort
    \/ DfsEnter
    \/ DfsLoop
    \/ RenderStep
    \/ Return

Spec == Init /\ [][Next]_vars

----------------------------------------------------------------------------
(* The graph API on its own: any sequence of add_node and add_dependency,
   then topological_sort *)

GraphInit ==
    /\ pc = "idle"
    /\ values = Null
    /\ input = Null
    /\ Fresh
    /\ NoLoad

AddNode(p) ==
    /\ pc = "idle"
    /\ graph' = add_node(graph, p)
    /\ mentioned' = mentioned \cup {p}
    /\ UNCHANGED <<pc, values, input, templates, pending, order, idx, result,
                   dfsVars, rendered, renderLog, ctxLog, graphBuilt, deps>>
    /\ UNCHANGED steps
    /\ UNCHANGED loadVars

AddDependency(from, to) ==
    /\ pc = "idle"
    /\ Len(graph.edges) < MaxEdges
    /\ graph' = add_dependency(graph, from, to)
    /\ deps' = deps \cup {<<from, to>>}
    /\ mentioned' = mentioned \cup {from, to}
    /\ UNCHANGED <<pc, values, input, templates, pending, order, idx, result,
                   dfsVars, rendered, renderLog, ctxLog, graphBuilt>>
    /\ UNCHANGED steps
    /\ UNCHANGED loadVars

GraphSort == pc = "idle" /\ TopoSortStep("sorted")

GraphNext ==
    \/ \E p \in GraphPaths : AddNode(p)
    \/ \E from \in GraphPaths : \E to \in GraphPaths : AddDependency(from, to)
    \/ GraphSort
    \/ DfsEnter
    \/ DfsLoop

GraphSpec == GraphInit /\ [][GraphNext]_vars

----------------------------------------------------------------------------
(* Merger (load_values.rs) *)

\* variant: the pushed elements put in front of the existing ones
extend_Prepend(existing_list, new_list) == new_list \o existing_list

\* Vec::extend: existing_list.extend(new_list.clone())
extend(existing_list, new_list) == existing_list \o new_list

\* variant: an occupied entry keeps its value
OccupiedInsert_Keeps(existing, new_value) == existing

\* Entry::Occupied, the `_` arm: entry.insert(new_value) replaces the value
OccupiedInsert(existing, new_value) == new_value

\* variant: keys that only the accumulator has are lost
RECURSIVE merge_maps_NotAdditive(_, _)
merge_maps_NotAdditive(existing_map, new_map) ==
    [key \in DOMAIN new_map |->
        IF key \notin DOMAIN existing_map THEN new_map[key]
        ELSE IF existing_map[key].k = "Mapping" /\ new_map[key].k = "Mapping"
        THEN Map(merge_maps_NotAdditive(existing_map[key].v, new_map[key].v))
        ELSE IF existing_map[key].k = "Sequence" /\ new_map[key].k = "Sequence"
        THEN SeqV(extend(existing_map[key].v, new_map[key].v))
        ELSE OccupiedInsert(existing_map[key], new_map[key])]

\* variant: a mapping met by a mapping is replaced, not merged
merge_maps_Shallow(existing_map, new_map) ==
    [key \in (DOMAIN existing_map) \cup (DOMAIN new_map) |->
        IF key \notin DOMAIN new_map THEN existing_map[key]
        ELSE IF key \notin DOMAIN existing_map THEN new_map[key]
        ELSE IF existing_map[key].k = "Sequence" /\ new_map[key].k = "Sequence"
        THEN SeqV(extend(existing_map[key].v, new_map[key].v))
        ELSE OccupiedInsert(existing_map[key], new_map[key])]

\* merge_maps: the entries of new_map are visited one by one; the keys of a
\* mapping are distinct, so each key of the result is decided on its own
RECURSIVE merge_maps(_, _)
merge_maps(existing_map, new_map) ==
    [key \in (DOMAIN existing_map) \cup (DOMAIN new_map) |->
        IF key \notin DOMAIN new_map THEN existing_map[key]
        ELSE IF key \notin DOMAIN existing_map THEN new_map[key]
        ELSE IF existing_map[key].k = "Mapping" /\ new_map[key].k = "Mapping"
        THEN Map(merge_maps(existing_map[key].v, new_map[key].v))
        ELSE IF existing_map[key].k = "Sequence" /\ new_map[key].k = "Sequence"
        THEN SeqV(extend(existing_map[key].v, new_map[key].v))
        ELSE OccupiedInsert(existing_map[key], new_map[key])]

\* variant: the inline loop without the arm for sequences
MergeSource_NoExtend(acc, map) ==
    [key \in (DOMAIN acc) \cup (DOMAIN map) |->
        IF key \notin DOMAIN map THEN acc[key]
        ELSE IF key \notin DOMAIN acc THEN map[key]
        ELSE IF acc[key].k = "Mapping" /\ map[key].k = "Mapping"
        THEN Map(merge_maps(acc[key].v, map[key].v))
        ELSE OccupiedInsert(acc[key], map[key])]

\* load_yaml_files: the loop `for (key, value) in map` over one source, which
\* repeats the match of merge_maps for the top level
MergeSource(acc, map) ==
    [key \in (DOMAIN acc) \cup (DOMAIN map) |->
        IF key \notin DOMAIN map THEN acc[key]
        ELSE IF key \notin DOMAIN acc THEN map[key]
        ELSE IF acc[key].k = "Mapping" /\ map[key].k = "Mapping"
        THEN Map(merge_maps(acc[key].v, map[key].v))
        ELSE IF acc[key].k = "Sequence" /\ map[key].k = "Sequence"
        THEN SeqV(extend(acc[key].v, map[key].v))
        ELSE OccupiedInsert(acc[key], map[key])]

\* yaml_file.contains("=")
ContainsEq(s) == "=" \in Range(s)

\* the nested single-field mapping of a dotted path
RECURSIVE Nest(_, _, _)
Nest(parts, i, lit) ==
    IF i > Len(parts) THEN lit
    ELSE Map([key \in {parts[i]} |-> Nest(parts, i + 1, lit)])

\* parse_yaml_string: `a.b=x` becomes {a: {b: "x"}}, the literal a string
parse_yaml_string(s) ==
    LET eq == CHOOSE i \in 1..Len(s) : s[i] = "=" /\ \A h \in 1..(i - 1) : s[h] # "="
    IN Nest(Split(SubSeq(s, 1, eq - 1)), 1, Str(SubSeq(s, eq + 1, Len(s))))

Unreadable == [k |-> "Unreadable", v |-> 0]

\* read_yaml_file with the context load_yaml_files adds to its error
read_yaml_file(src) ==
    IF src.doc = Unreadable
    THEN [ok |-> FALSE, v |-> Null,
          err |-> <<"Failed to read values YAML file: ">> \o src.id]
    ELSE [ok |-> TRUE, v |-> src.doc, err |-> <<>>]

\* the value load_yaml_files binds to `yaml` for a source
SourceYaml(src) ==
    IF ContainsEq(src.id)
    THEN [ok |-> TRUE, v |-> parse_yaml_string(src.id), err |-> <<>>]
    ELSE read_yaml_file(src)

\* variant: the loop left before the last source
AllLoaded_SkipsLast(files, i) == i >= Len(files)

\* `for yaml_file in yaml_files` has visited every source
AllLoaded(files, i) == i > Len(files)

----------------------------------------------------------------------------
(* Sources *)

MaxSources == 3     \* longest list of sources given to load_yaml_files

File(name, doc) == [id |-> <<name>>, doc |-> doc]

Inline(s) == [id |-> s, doc |-> Null]

M1(k1, v1) == Map([key \in {k1} |-> v1])

M2(k1, v1, k2, v2) == Map([key \in {k1, k2} |-> IF key = k1 THEN v1 ELSE v2])

M3(k1, v1, k2, v2, k3, v3) ==
    Map([key \in {k1, k2, k3} |->
            IF key = k1 THEN v1 ELSE IF key = k2 THEN v2 ELSE v3])

Sx == Str(<<"x">>)

Sy == Str(<<"y">>)

Documents ==
    { File("f1", M2(K("a"), Str(Tmpl(K("c"))),
                    K("b"), M2(K("a"), Sy, K("x"), M1(K("a"), Num(1))))),
      File("f2", M2(K("b"), M2(K("c"), Num(2), K("x"), M1(K("c"), Num(3))),
                    K("c"), Sx)),
      File("f3", M2(K("b"), M2(K("a"), Num(2), K("x"), Sx),
                    K("c"), Str(Tmpl(K("a"))))),
      File("f4", M2(K("c"), SeqV(<<Sx>>),
                    K("b"), M1(K("a"), SeqV(<<Sy>>)))),
      File("f5", M2(K("c"), SeqV(<<Sy, Sx>>),
                    K("b"), M1(K("a"), SeqV(<<Sx>>)))),
      File("f6", M1(K("foo"), M2(K("bar"), Str(<<"old">>), K("a"), Num(1)))),
      File("f7", M2(<<"foo", ".", "bar">>, Str(Tmpl(K("c"))), K("c"), Sx)),
      File("f8", M3(K("foo"), Sx, K("a"), Sx, K("b"), SeqV(<<Sx>>))),
      File("f9", Map(<<>>)),
      File("f10", SeqV(<<Sx>>)),
      File("f11", Null),
      File("f12", Unreadable) }

Override == <<"foo", ".", "bar", "=", "manual">>

Sources == Documents \cup {Inline(Override)}

SourceLists == UNION {[1..n -> Sources] : n \in 0..MaxSources}

----------------------------------------------------------------------------
(* load_yaml_files: the sources are merged one by one, then
   resolve_value_references runs on the merged tree *)

LoadInit ==
    /\ pc = "load"
    /\ yaml_files \in SourceLists
    /\ fileIdx = 1
    /\ yaml_values = <<>>
    /\ prev_values = <<>>
    /\ loadErr = <<>>
    /\ resolveCalls = 0
    /\ values = Null
    /\ input = Null
    /\ Fresh

resolveVars == <<values, input, templates, pending, graph, order, idx,
                 dfsVars, rendered, renderLog, ctxLog, graphBuilt, deps, steps,
                 mentioned>>

\* one iteration of `for yaml_file in yaml_files`
LoadStep ==
    /\ pc = "load"
    /\ ~AllLoaded(yaml_files, fileIdx)
    /\ LET yaml == SourceYaml(yaml_files[fileIdx]) IN
       IF ~yaml.ok
       THEN /\ pc' = "error"
            /\ result' = [kind |-> "load_error", chain |-> <<>>]
            /\ loadErr' = yaml.err
            /\ UNCHANGED <<fileIdx, yaml_values, prev_values>>
       ELSE IF yaml.v.k = "Mapping"
       THEN /\ yaml_values' = MergeSource(yaml_values, yaml.v.v)
            /\ prev_values' = yaml_values
            /\ fileIdx' = fileIdx + 1
            /\ UNCHANGED <<pc, result, loadErr>>
       ELSE /\ pc' = "error"
            /\ result' = [kind |-> "load_error", chain |-> <<>>]
            /\ loadErr' = <<"Expected top-level YAML structure to be a mapping.">>
            /\ UNCHANGED <<fileIdx, yaml_values, prev_values>>
    /\ UNCHANGED <<yaml_files, resolveCalls, resolveVars>>

\* after the loop: resolve_value_references(Value::Mapping(yaml_values))
StartResolve ==
    /\ pc = "load"
    /\ AllLoaded(yaml_files, fileIdx)
    /\ values' = Map(yaml_values)
    /\ input' = Map(yaml_values)
    /\ resolveCalls' = resolveCalls + 1
    /\ pc' = "start"
    /\ UNCHANGED <<templates, pending, graph, order, idx, result, dfsVars,
                   rendered, renderLog, ctxLog, graphBuilt, deps, steps,
                   mentioned, yaml_files, fileIdx, yaml_values, prev_values,
                   loadErr>>

LoadNext ==
    \/ LoadStep
    \/ StartResolve
    \/ CollectTemplates
    \/ BuildStep
    \/ Sort
    \/ DfsEnter
    \/ DfsLoop
    \/ RenderStep
    \/ Return

LoadSpec == LoadInit /\ [][LoadNext]_vars

----------------------------------------------------------------------------
(* Properties *)

\* transitive closure of a relation given as a set of pairs
RECURSIVE Closure(_)
Closure(R) ==
    LET R2 == R \cup {<<z[1][1], z[2][2]>> : z \in {w \in R \X R : w[1][2] = w[2][1]}}
    IN IF R2 = R THEN R ELSE Closure(R2)

\* the recorded dependencies contain a directed cycle
HasCycle(R) == \E e \in Closure(R) : e[1] = e[2]

\* a value contains a string the template detector flags
RECURSIVE HasTemplate(_)
HasTemplate(v) ==
    IF v.k = "String" THEN contains_template(v.v)
    ELSE IF v.k \in {"Mapping", "Sequence"}
    THEN \E x \in DOMAIN v.v : HasTemplate(v.v[x])
    ELSE FALSE

IsTemplateAt(tree, pos) ==
    At(tree, pos).k = "String" /\ contains_template(At(tree, pos).v)

Succeeded == pc = "done" /\ result.kind = "ok"

\* C1: in a successful run, when the renderer is called for a template path,
\* every template path its template references was rendered in an earlier
\* call, and the context tree of the call holds, at the referenced path, the
\* string rendered for it.
C1_ReferencesRenderedFirst ==
    Succeeded =>
        \A i \in DOMAIN renderLog :
            \A r \in Range(extract_references(templates[renderLog[i]])) :
                r \in DOMAIN templates =>
                    /\ \E j \in 1..(i - 1) : renderLog[j] = r
                    /\ Lookup(ctxLog[i], r) = [st |-> "val", v |-> Str(rendered[r])]

\* C2: whenever the renderer is called, the value found in its context tree
\* at each path the template references contains no string that the template
\* detector still flags.
C2_NoRawTemplateInContext ==
    \A i \in DOMAIN renderLog :
        \A r \in Range(extract_references(templates[renderLog[i]])) :
            Lookup(ctxLog[i], r).st = "val" => ~HasTemplate(Lookup(ctxLog[i], r).v)

\* C3: once the graph is built, if the recorded dependencies contain a cycle
\* (self-reference included) the run is in topological_sort or has returned
\* the circular-dependency error; the renderer was never called and the tree
\* is the input tree.
C3_CycleAbortsBeforeRendering ==
    (pc \notin {"start", "build"} /\ HasCycle(deps)) =>
        /\ pc \in {"sort", "dfs", "error"}
        /\ pc = "error" => result.kind = "circular"
        /\ renderLog = <<>>
        /\ values = input

C3_Witness ==
    /\ pc = "error"
    /\ result.kind = "circular"
    /\ Len(result.chain) >= 3
    /\ HasCycle(deps)
    /\ input.k = "Mapping"

\* C4: topological_sort returns an error if and only if the recorded
\* dependencies contain a directed cycle; add_dependency(a, a) alone is one.
C4_ErrorIffCycle ==
    /\ pc = "sorted" => ~HasCycle(deps)
    /\ pc \in {"dfs", "error"} => HasCycle(deps)
    /\ pc = "error" => result.kind = "circular"

C4_Witness ==
    /\ pc = "error"
    /\ deps = {<<K("a"), K("a")>>}
    /\ Len(graph.edges) = 1

\* C5: the chain named in the error of topological_sort starts and ends with
\* the same name, every consecutive pair of names is a recorded dependency
\* (the later name depends on the earlier one), and no name but the first is
\* repeated, so every named node lies on the cycle.
C5_ChainIsACycle ==
    (pc = "error" /\ result.kind = "circular") =>
        LET c == result.chain IN
        /\ Len(c) >= 2
        /\ c[1] = c[Len(c)]
        /\ \A i \in 1..(Len(c) - 1) : <<c[i + 1], c[i]>> \in deps
        /\ \A i \in 1..(Len(c) - 1) : \A j \in 1..(Len(c) - 1) :
               c[i] = c[j] => i = j

C5_Witness ==
    /\ pc = "error"
    /\ result.kind = "circular"
    /\ Len(result.chain) = 4
    /\ Cardinality(deps) = 3

\* position of a name in the returned order
OrderPos(name) == CHOOSE i \in DOMAIN order : order[i] = name

\* C6: for an acyclic graph, topological_sort returns every node exactly once,
\* and for every add_dependency(from, to) made, `to` comes before `from`; the
\* empty graph yields the empty order.
C6_OrderRespectsDependencies ==
    pc = "sorted" =>
        /\ Len(order) = Len(graph.nodes)
        /\ Range(order) = Range(graph.nodes)
        /\ Range(order) = DOMAIN graph.node_indices
        /\ \A d \in deps : OrderPos(d[2]) < OrderPos(d[1])
        /\ graph = NewGraph => order = <<>>

C6_Witness ==
    /\ pc = "sorted"
    /\ Len(order) = 3
    /\ Cardinality(deps) = 3

RECURSIVE SumSeq(_)
SumSeq(q) == IF q = <<>> THEN 0 ELSE Head(q) + SumSeq(Tail(q))

SumSet(S, F(_)) ==
    LET q == SetToSeq(S) IN SumSeq([i \in DOMAIN q |-> F(q[i])])

\* steps a template can still add to the run: its own iteration, and two per
\* node and edge it adds to the graph
BuildCost(template_str) == 3 + 4 * Len(extract_references(template_str))

SortCost(g) == 3 + 2 * (Len(g.nodes) + Len(g.edges))

\* an upper bound on the number of steps the run can still take
Measure ==
    IF pc = "start"
    THEN 4 + SumSet(collect_template_values(values, <<>>),
                    LAMBDA r : BuildCost(r[2]))
    ELSE IF pc = "build"
    THEN SortCost(graph) + SumSet(pending, LAMBDA p : BuildCost(templates[p]))
    ELSE IF pc = "sort" THEN SortCost(graph)
    ELSE IF pc = "dfs"
    THEN 1 + (IF dfsCall # 0 THEN 1 ELSE 0)
           + SumSet((1..Len(graph.nodes)) \ DOMAIN visited,
                    LAMBDA n : 2 + 2 * Len(Neighbors(graph, n)))
           + SumSet(DOMAIN dfsStack, LAMBDA i : 1 + 2 * Len(dfsStack[i].rest))
    ELSE IF pc = "render" THEN 2 + Len(order) - idx
    ELSE 0

\* a run that has not returned can take a step
CanStep ==
    \/ pc \in {"start", "sort", "render"}
    \/ pc = "build" /\ pending # {}
    \/ pc = "dfs" /\ (dfsCall # 0 \/ dfsStack # <<>>)

\* the bound at the call of resolve_with
StartMeasure ==
    4 + SumSet(collect_template_values(input, <<>>), LAMBDA r : BuildCost(r[2]))

\* C7: resolve_with terminates, with a tree or an error, also on a cyclic
\* reference graph: a run that has not returned can always take a step, the
\* steps taken plus a natural-number bound on the steps left never exceed the
\* bound the input tree gives, and the depth-first search that reports a
\* cycle enters no node twice.
C7_Terminates ==
    /\ pc \in {"done", "error"} \/ CanStep
    /\ Measure >= 0
    /\ steps + Measure <= StartMeasure
    /\ \A n \in DOMAIN entered : entered[n] <= 1

C7_Witness ==
    /\ pc = "error"
    /\ result.kind = "circular"
    /\ Cardinality({n \in DOMAIN entered : entered[n] = 1}) >= 2
    /\ \E n \in DOMAIN visited : ~visited[n]

\* C8: after a successful run, every position that held a string flagged by
\* the template detector, mapping field or sequence element, holds the plain
\* string the renderer returned for the template recorded for it.
C8_TemplatesReplacedInPlace ==
    Succeeded =>
        \A pos \in Positions(input) :
            IsTemplateAt(input, pos) =>
                /\ pos \in Positions(values)
                /\ PathStr(<<>>, pos) \in DOMAIN rendered
                /\ At(values, pos) = Str(rendered[PathStr(<<>>, pos)])

\* C9: after a successful run, every scalar of the input tree that the
\* template detector did not flag (number, null, plain string, also as an
\* element of a sequence) is still at its position, unchanged.
C9_OtherValuesUnchanged ==
    Succeeded =>
        \A pos \in Positions(input) :
            (/\ At(input, pos).k \notin {"Mapping", "Sequence"}
             /\ ~IsTemplateAt(input, pos)) =>
                /\ pos \in Positions(values)
                /\ At(values, pos) = At(input, pos)

\* C10: when the scan finds no template string, resolve_with returns the
\* input tree, having built no graph and never called the renderer.
C10_NoTemplatesPassthrough ==
    (pc # "start" /\ collect_template_values(input, <<>>) = {}) =>
        /\ Succeeded
        /\ values = input
        /\ ~graphBuilt
        /\ graph = NewGraph
        /\ renderLog = <<>>

C10_Witness ==
    /\ pc = "done"
    /\ input.k = "Mapping"
    /\ Cardinality(DOMAIN input.v) >= 3
    /\ collect_template_values(input, <<>>) = {}
    /\ \E key \in DOMAIN input.v : input.v[key].k = "Sequence"

\* template positions of the input tree
TemplatePositions == {pos \in Positions(input) : IsTemplateAt(input, pos)}

\* the returned tree holds the rendered string where the input held a template
Replaced(pos) ==
    /\ pos \in Positions(values)
    /\ At(values, pos).k = "String"
    /\ ~contains_template(At(values, pos).v)

\* the paths of resolution_order[1..n] that have a template
TemplatesUpTo(n) == SelectSeq(SubSeq(order, 1, n), LAMBDA p : p \in DOMAIN templates)

Failed == pc = "error" /\ result.kind \in {"render_error", "path_error"}

\* C11: when the renderer or the write-back fails for a template, the run
\* stops at that step: the failing call is the last call of the renderer, no
\* template later in the order was rendered, and only the error is returned;
\* and a tree that is returned never has some of its templates replaced and
\* others not.
C11_FailsAtomically ==
    /\ Failed =>
          /\ renderLog = TemplatesUpTo(idx)
          /\ Last(renderLog) = order[idx]
          /\ ~CanStep
    /\ Succeeded =>
          \/ \A pos \in TemplatePositions : Replaced(pos)
          \/ \A pos \in TemplatePositions : At(values, pos) = At(input, pos)

\* C12: set_value_at_path never fails for a path the scan recorded.
C12_WriteBackNeverFails == result.kind # "path_error"

\* C13: in a successful run the renderer is called exactly once for every
\* recorded template path and for nothing else, also when several templates
\* depend on the same path or a template names the same path several times.
C13_RenderedExactlyOnce ==
    Succeeded =>
        /\ Range(renderLog) = DOMAIN templates
        /\ Len(renderLog) = Cardinality(DOMAIN templates)

C13_Witness ==
    /\ Succeeded
    /\ Len(renderLog) = 3
    /\ \E r \in DOMAIN templates :
           Cardinality({p \in DOMAIN templates :
                           r \in Range(extract_references(templates[p]))}) >= 2
    /\ \E p \in DOMAIN templates :
           LET refs == extract_references(templates[p]) IN
           Len(refs) = 2 /\ refs[1] = refs[2]

\* the places a merge decides: the pair merged and what it left, at the top
\* and under every key that holds a mapping on both sides
RECURSIVE MergeSites(_, _, _)
MergeSites(ev, nv, rv) ==
    {<<ev, nv, rv>>} \cup
    (IF ev.k = "Mapping" /\ nv.k = "Mapping" /\ rv.k = "Mapping"
     THEN UNION {MergeSites(ev.v[key], nv.v[key], rv.v[key]) :
                 key \in (DOMAIN ev.v) \cap (DOMAIN nv.v) \cap (DOMAIN rv.v)}
     ELSE {})

\* the last source merged into the accumulator
LastMerged == SourceYaml(yaml_files[fileIdx - 1]).v

\* the sites of the last merge the loading loop made
LastSites ==
    IF fileIdx > 1
    THEN MergeSites(Map(prev_values), LastMerged, Map(yaml_values))
    ELSE {}

TopSite == <<Map(prev_values), LastMerged, Map(yaml_values)>>

BothMappings(site) == site[1].k = "Mapping" /\ site[2].k = "Mapping"

BothSequences(site) == site[1].k = "Sequence" /\ site[2].k = "Sequence"

\* C14: wherever a merge meets a mapping on both sides, at any depth, the
\* result is a mapping with the keys of both; a key only one side has keeps
\* that side's value, and a key holding a mapping on both sides holds the
\* merge of the two by the same rule.
C14_MergeRecursiveAdditive ==
    \A site \in LastSites :
        BothMappings(site) =>
            LET e == site[1].v
                n == site[2].v
                r == site[3] IN
            /\ r.k = "Mapping"
            /\ DOMAIN r.v = (DOMAIN e) \cup (DOMAIN n)
            /\ \A key \in (DOMAIN e) \ (DOMAIN n) : r.v[key] = e[key]
            /\ \A key \in (DOMAIN n) \ (DOMAIN e) : r.v[key] = n[key]
            /\ \A key \in (DOMAIN e) \cap (DOMAIN n) :
                   (e[key].k = "Mapping" /\ n[key].k = "Mapping") =>
                       /\ r.v[key].k = "Mapping"
                       /\ <<e[key], n[key], r.v[key]>> \in LastSites

C14_Witness ==
    /\ fileIdx > 1
    /\ \E site \in LastSites \ {TopSite} :
          /\ BothMappings(site)
          /\ (DOMAIN site[1].v) \ (DOMAIN site[2].v) # {}
          /\ (DOMAIN site[2].v) \ (DOMAIN site[1].v) # {}
          /\ \E key \in (DOMAIN site[1].v) \cap (DOMAIN site[2].v) :
                 /\ site[1].v[key].k = "Mapping"
                 /\ site[2].v[key].k = "Mapping"
                 /\ Cardinality(DOMAIN site[3].v[key].v) = 2

C16_MismatchLastWins ==
    \A site \in LastSites :
        (~BothMappings(site) /\ ~BothSequences(site)) => site[3] = site[2]

C16_Witness ==
    /\ \E site \in LastSites :
           /\ site[1].k = "String"
           /\ site[2].k = "Number"
    /\ \E site \in LastSites :
           /\ site[1].k = "Mapping"
           /\ site[2].k = "String"
    /\ fileIdx = 3

\* merging a list of mappings from the empty accumulator
RECURSIVE MergeList(_, _, _)
MergeList(acc, docs, j) ==
    IF j > Len(docs) THEN acc
    ELSE MergeList(MergeSource(acc, docs[j].v), docs, j + 1)

\* the values the sources of the list gave
Loaded == [j \in DOMAIN yaml_files |-> SourceYaml(yaml_files[j]).v]

\* every source of the list was merged
AllMerged == fileIdx = Len(yaml_files) + 1

\* C17: a list of mapping sources [A, B, C, ...] merges to the same tree as
\* the list [merge(A, B), C, ...].
C17_MergeGroupsLeft ==
    (AllMerged /\ Len(yaml_files) >= 2) =>
        yaml_values =
            MergeList(<<>>,
                      <<Map(merge_maps(Loaded[1].v, Loaded[2].v))>>
                          \o SubSeq(Loaded, 3, Len(Loaded)),
                      1)

C17_Witness ==
    /\ AllMerged
    /\ Len(yaml_files) = 3
    /\ \A j \in 1..3 : K("b") \in DOMAIN Loaded[j].v
    /\ Loaded[1].v[K("b")].k = "Mapping"
    /\ Loaded[2].v[K("b")].k = "Mapping"
    /\ Loaded[3].v[K("b")].k = "Mapping"
    /\ Cardinality({Loaded[1], Loaded[2], Loaded[3]}) = 3

\* a message names a source
Names(msg, id) ==
    \E j \in 1..(Len(msg) - Len(id) + 1) : SubSeq(msg, j, j + Len(id) - 1) = id

RootShapeMessage == "Expected top-level YAML structure to be a mapping."

\* the first source of the list that is not a mapping, all before it being
\* mappings; 0 if there is none
FirstNonMapping ==
    IF \E j \in DOMAIN yaml_files :
           /\ SourceYaml(yaml_files[j]).ok
           /\ SourceYaml(yaml_files[j]).v.k # "Mapping"
           /\ \A h \in 1..(j - 1) : /\ SourceYaml(yaml_files[h]).ok
                                    /\ SourceYaml(yaml_files[h]).v.k = "Mapping"
    THEN CHOOSE j \in DOMAIN yaml_files :
           /\ SourceYaml(yaml_files[j]).ok
           /\ SourceYaml(yaml_files[j]).v.k # "Mapping"
           /\ \A h \in 1..(j - 1) : /\ SourceYaml(yaml_files[h]).ok
                                    /\ SourceYaml(yaml_files[h]).v.k = "Mapping"
    ELSE 0

\* C18: when a source of the list is not a mapping at the top level, the
\* load ends with the root-shape error, the error names that source, and
\* resolution never ran, so no tree is returned.
C18_InvalidRootShape ==
    (FirstNonMapping # 0 /\ (pc # "load" \/ fileIdx > FirstNonMapping)) =>
        /\ pc = "error"
        /\ result.kind = "load_error"
        /\ loadErr # <<>>
        /\ loadErr[1] = RootShapeMessage
        /\ Names(loadErr, yaml_files[FirstNonMapping].id)
        /\ resolveCalls = 0
        /\ input = Null

\* C19: when the last source is the override foo.bar=manual and a tree is
\* returned, the tree holds the string "manual" at foo.bar.
C19_InlineOverrideWins ==
    (Succeeded /\ yaml_files # <<>> /\ Last(yaml_files).id = Override) =>
        /\ K("foo") \in DOMAIN values.v
        /\ values.v[K("foo")].k = "Mapping"
        /\ K("bar") \in DOMAIN values.v[K("foo")].v
        /\ values.v[K("foo")].v[K("bar")] = Str(<<"manual">>)

\* C20: resolution is called at most once, and only with every source merged:
\* it is given the merge of the whole list, the first call of the renderer
\* sees that tree, and a load that failed never called it.
C20_ResolveAfterAllMerged ==
    /\ resolveCalls <= 1
    /\ result.kind = "load_error" => resolveCalls = 0
    /\ (pc # "load" /\ result.kind # "load_error") => resolveCalls = 1
    /\ (resolveCalls = 1 \/ renderLog # <<>>) =>
          /\ AllMerged
          /\ yaml_values = MergeList(<<>>, Loaded, 1)
          /\ input = Map(yaml_values)
          /\ ctxLog # <<>> => ctxLog[1] = input

C20_Witness ==
    /\ Succeeded
    /\ Len(yaml_files) = 3
    /\ K("a") \in DOMAIN Loaded[1].v
    /\ K("c") \notin DOMAIN Loaded[1].v
    /\ K("c") \in DOMAIN Loaded[2].v
    /\ K("c") \in DOMAIN Loaded[3].v
    /\ Loaded[2].v[K("c")] # Loaded[3].v[K("c")]
    /\ K("a") \in DOMAIN rendered
    /\ rendered[K("a")] = ToText(yaml_values[K("c")]) \o <<"-s">>

\* resolve_with step 4 as a function of the order: the outcome of rendering
\* and writing back the templates of ord[i..] in turn
RECURSIVE ResolveInOrder(_, _, _, _)
ResolveInOrder(tree, tm, ord, i) ==
    IF i > Len(ord) THEN [kind |-> "ok", v |-> tree]
    ELSE IF ord[i] \in DOMAIN tm
    THEN LET r == render(tm[ord[i]], tree) IN
         IF ~r.ok THEN [kind |-> "render_error", v |-> Null]
         ELSE LET w == set_value_at_path(tree, ord[i], Str(r.s)) IN
              IF w.ok THEN ResolveInOrder(w.v, tm, ord, i + 1)
              ELSE [kind |-> "path_error", v |-> Null]
    ELSE ResolveInOrder(tree, tm, ord, i + 1)

\* the orders of the nodes of a graph that respect all its edges
RECURSIVE Extensions(_, _, _)
Extensions(g, placed, remaining) ==
    IF remaining = {} THEN {placed}
    ELSE UNION {Extensions(g, Append(placed, g.nodes[n]), remaining \ {n}) :
                n \in {m \in remaining :
                          \A j \in DOMAIN g.edges :
                              g.edges[j][2] = m => g.edges[j][1] \notin remaining}}

ValidOrders(g) == Extensions(g, <<>>, 1..Len(g.nodes))

\* C21: the outcome of a run does not depend on which order the sort picked:
\* rendering in any order that respects all edges of the dependency graph
\* gives the tree the run returned, or fails when the run failed.
C21_TieBreakIndependent ==
    (pc \in {"done", "error"} /\ graphBuilt /\ result.kind # "circular") =>
        \A o \in ValidOrders(graph) :
            LET r == ResolveInOrder(input, templates, o, 1) IN
            /\ (r.kind = "ok") <=> (result.kind = "ok")
            /\ r.kind = "ok" => r.v = values

\* the tree and the path of the last call of the renderer
LastCtx == Last(ctxLog)

LastPath == Last(renderLog)

\* set_value_at_path was called for the last rendered string
WriteAttempted == renderLog # <<>> /\ result.kind # "render_error"

\* the position the segments of a path string name
SegPos(parts) == [j \in DOMAIN parts |-> KeyStep(parts[j])]

\* every step of a position exists in a tree, each node on the way and the
\* node reached being a mapping
RECURSIVE Walkable(_, _)
Walkable(t, pos) ==
    /\ t.k = "Mapping"
    /\ pos # <<>> =>
          /\ Head(pos).key \in DOMAIN t.v
          /\ Walkable(t.v[Head(pos).key], Tail(pos))

IsPrefix(a, b) == Len(a) <= Len(b) /\ SubSeq(b, 1, Len(a)) = a

\* C22: set_value_at_path succeeds exactly when every segment before the
\* last names an existing mapping; a failed call leaves the tree as it was,
\* and a successful one changes nothing but the terminal key, which then
\* holds the new value.
C22_WriteOnlyTerminalKey ==
    WriteAttempted =>
        LET target == SegPos(Split(LastPath)) IN
        /\ (result.kind = "path_error") <=> ~Walkable(LastCtx, Front(target))
        /\ result.kind = "path_error" => values = LastCtx
        /\ result.kind # "path_error" =>
              /\ target \in Positions(values)
              /\ At(values, target) = Str(rendered[LastPath])
              /\ \A q \in Positions(values) :
                     ~IsPrefix(target, q) => q \in Positions(LastCtx)
              /\ \A q \in Positions(LastCtx) :
                     (~IsPrefix(target, q) /\ ~IsPrefix(q, target)) =>
                         /\ q \in Positions(values)
                         /\ At(values, q) = At(LastCtx, q)

C22_Witness ==
    /\ result.kind = "path_error"
    /\ Len(renderLog) >= 2
    /\ Len(Split(LastPath)) = 2
    /\ Split(LastPath)[1] \notin DOMAIN LastCtx.v

\* the index of the node of a path
NodeOf(p) == graph.node_indices[p]

\* C23: the graph holds exactly one node per path ever given to add_node or
\* add_dependency, in either role, the index map names each of them, every
\* dependency ever added still has its edge, and a call only appends: the
\* nodes and edges it found are all still there, in place.
C23_GraphAdditive ==
    /\ [](/\ Range(graph.nodes) = mentioned
          /\ Len(graph.nodes) = Cardinality(mentioned)
          /\ DOMAIN graph.node_indices = mentioned
          /\ \A p \in mentioned : graph.nodes[NodeOf(p)] = p
          /\ \A d \in deps :
                 /\ d[1] \in mentioned
                 /\ d[2] \in mentioned
                 /\ <<NodeOf(d[2]), NodeOf(d[1])>> \in Range(graph.edges))
    /\ [][/\ IsPrefix(graph.nodes, graph'.nodes)
          /\ IsPrefix(graph.edges, graph'.edges)]_vars

C23_Witness ==
    /\ pc = "idle"
    /\ Cardinality(mentioned) = 3
    /\ Len(graph.edges) = 4
    /\ Cardinality(deps) = 2
    /\ \E p \in mentioned : \A d \in deps : p # d[1] /\ p # d[2]

\* the paths in the graph that have no recorded template
PureTargets == mentioned \ DOMAIN templates

\* C24: a path that is in the graph only as a dependency target is never
\* rendered and never written: the renderer is called for template paths
\* only, a target absent from the input tree is absent from the tree at
\* every step, and a run fails at a render call exactly when the renderer
\* itself fails on the template and the tree it is given.
C24_PureTargetsUntouched ==
    /\ Range(renderLog) \subseteq DOMAIN templates
    /\ \A p \in PureTargets :
           /\ p \notin DOMAIN rendered
           /\ SegPos(Split(p)) \notin Positions(input) =>
                  SegPos(Split(p)) \notin Positions(values)
    /\ renderLog # <<>> =>
           ((result.kind = "render_error")
                <=> ~render(templates[LastPath], LastCtx).ok)

C24_Witness ==
    /\ Succeeded
    /\ K("y") \in PureTargets
    /\ SegPos(K("y")) \notin Positions(values)
    /\ \E p \in PureTargets : SegPos(Split(p)) \in Positions(input)
    /\ Len(renderLog) = 2

OutermostReturnsNone ==
    /\ pc = "dfs"
    /\ dfsCall = 0
    /\ \/ dfsStack = <<>>
       \/ Len(dfsStack) = 1 /\ Last(dfsStack).rest = <<>>

\* C26: when topological_sort has detected a cycle, the search started from
\* the flagged node never returns without a cycle, and the error carries a
\* chain, never the flagged node's name alone.
C26_FallbackNeverTaken ==
    /\ ~OutermostReturnsNone
    /\ (pc = "error" /\ result.kind = "circular") =>
           /\ Len(result.chain) >= 2
           /\ result.chain # <<graph.nodes[cycleNode]>>

C26_Witness ==
    /\ pc = "error"
    /\ result.kind = "circular"
    /\ Len(graph.nodes) = 3
    /\ Len(result.chain) = 3
    /\ \E p \in mentioned : <<p, p>> \notin Closure(deps)
    /\ \E n \in DOMAIN visited : ~visited[n]

\* C27: a successful run adds and removes no mapping key and no sequence
\* element: the returned tree has exactly the positions of the input tree.
C27_PositionsPreserved ==
    Succeeded => Positions(values) = Positions(input)

\* mapping, sequence or anything else
Shape(v) == IF v.k \in {"Mapping", "Sequence"} THEN v.k ELSE "Scalar"

\* no key, at any depth the three mappings share, holds a mapping in the
\* first and the third but something else in the second, or a sequence in
\* the first and the third but something else in the second
RECURSIVE NoSandwich(_, _, _)
NoSandwich(a, b, c) ==
    \A key \in (DOMAIN a) \cap (DOMAIN b) \cap (DOMAIN c) :
        /\ ~(/\ Shape(a[key]) = Shape(c[key])
             /\ Shape(a[key]) # "Scalar"
             /\ Shape(b[key]) # Shape(a[key]))
        /\ (/\ a[key].k = "Mapping"
            /\ b[key].k = "Mapping"
            /\ c[key].k = "Mapping") => NoSandwich(a[key].v, b[key].v, c[key].v)

ThreeMerged == AllMerged /\ Len(yaml_files) = 3

\* C28 as stated: for the mappings A, B, C of a loaded list,
\* merge(A, merge(B, C)) equals merge(merge(A, B), C).
C28_RightRegrouping ==
    ThreeMerged =>
        LET A == Loaded[1].v
            B == Loaded[2].v
            C == Loaded[3].v IN
        /\ merge_maps(A, merge_maps(B, C)) = merge_maps(merge_maps(A, B), C)
        /\ merge_maps(A, merge_maps(B, C)) = yaml_values

\* C28 amended: regrouping to the right does not change the result when no
\* shared key holds a mapping (or a sequence) in A and in C but a value of
\* another shape in B.
C28_RightRegroupingSameShape ==
    (ThreeMerged /\ NoSandwich(Loaded[1].v, Loaded[2].v, Loaded[3].v)) =>
        LET A == Loaded[1].v
            B == Loaded[2].v
            C == Loaded[3].v IN
        /\ merge_maps(A, merge_maps(B, C)) = merge_maps(merge_maps(A, B), C)
        /\ merge_maps(A, merge_maps(B, C)) = yaml_values

C28_Witness ==
    /\ ThreeMerged
    /\ NoSandwich(Loaded[1].v, Loaded[2].v, Loaded[3].v)
    /\ \E key \in (DOMAIN Loaded[1].v) \cap (DOMAIN Loaded[2].v)
                     \cap (DOMAIN Loaded[3].v) :
           /\ Loaded[1].v[key].k = "Sequence"
           /\ Loaded[2].v[key].k = "Sequence"
           /\ Loaded[3].v[key].k = "String"
    /\ \E key \in (DOMAIN Loaded[1].v) \cap (DOMAIN Loaded[2].v)
                     \cap (DOMAIN Loaded[3].v) :
           /\ Loaded[1].v[key].k = "Mapping"
           /\ Loaded[2].v[key].k = "Mapping"
           /\ Loaded[3].v[key].k = "Mapping"

\* C29: each merge of the loading loop leaves the accumulator as
\* merge_maps(accumulator, source) would.
C29_InlineLoopIsMergeMaps ==
    fileIdx > 1 => yaml_values = merge_maps(prev_values, LastMerged.v)

C29_Witness ==
    /\ fileIdx > 1
    /\ \E key \in (DOMAIN prev_values) \cap (DOMAIN LastMerged.v) :
           prev_values[key].k = "Mapping" /\ LastMerged.v[key].k = "Mapping"
    /\ \E key \in (DOMAIN prev_values) \cap (DOMAIN LastMerged.v) :
           prev_values[key].k = "Sequence" /\ LastMerged.v[key].k = "Sequence"
    /\ \E key \in (DOMAIN prev_values) \ (DOMAIN LastMerged.v) : TRUE

====
